---- MODULE Spec2Model ----
(***************************************************************************)
(* AIToolbox::MDP::SparseModel (include/AIToolbox/MDP/SparseModel.hpp).    *)
(*                                                                         *)
(* Reals are fixed-point integers: a probability or a discount n stands    *)
(* for n / One, a per-transition reward r for r / One, and an entry of the *)
(* reward table (a sum of products r * p) for n / (One * One).  The        *)
(* arithmetic of the model is exact; double rounding is not modelled.      *)
(*                                                                         *)
(* An Eigen sparse matrix is the function from its stored (row, col)       *)
(* pairs to their values: an absent pair reads as 0, and a stored pair may *)
(* hold 0.  makeCompressed() changes the storage layout and no entry, so   *)
(* it has no counterpart here.                                             *)
(*                                                                         *)
(* op and res name the last call and how it ended ("ok", or               *)
(* "InvalidArgument" for a std::invalid_argument).  arg holds the          *)
(* arguments of the constructor call in the state that call leaves; the    *)
(* arguments of a member call are not kept in the state, and the claims    *)
(* about member calls quantify over them.  A draw of rand_ is an input of  *)
(* sampleSR.                                                               *)
(***************************************************************************)
EXTENDS Integers, Sequences, FiniteSets, TLC

\* ------------------------------------------------------------- dimensions
NS == 2
NA == 2
One == 4
Tol == 1
MaxRew == 2

States  == 0 .. NS - 1
Actions == 0 .. NA - 1

\* Values a caller may hand in: below 0, negligible, proper, above 1.
Vals      == -1 .. One + 1
RVals     == {-MaxRew, 0, Tol, MaxRew}
Discounts == {-1, 0, One, One + 1}
Draws     == 0 .. One - 1

VARIABLES constructed, discount_, transitions_, rewards_, op, res, arg, reads

vars == <<constructed, discount_, transitions_, rewards_, op, res, arg, reads>>

\* ------------------------------------------------------------- arithmetic
Abs(x) == IF x < 0 THEN -x ELSE x

checkEqualSmall(a, b) == Abs(a - b) <= Tol

checkDifferentSmall(a, b) == ~checkEqualSmall(a, b)

\* The same comparison on reward-table entries, whose unit is 1 / (One * One).
checkDifferentSmallR(a, b) == Abs(a - b) > Tol * One

RECURSIVE SumTo(_, _)
SumTo(f, n) == IF n < 0 THEN 0 ELSE f[n] + SumTo(f, n - 1)

\* ---------------------------------------------------------- sparse matrix
EmptyMatrix == [x \in {} |-> 0]

coeff(m, i, j) == IF <<i, j>> \in DOMAIN m THEN m[<<i, j>>] ELSE 0

insert(m, i, j, v) ==
    [x \in DOMAIN m \cup {<<i, j>>} |-> IF x = <<i, j>> THEN v ELSE m[x]]

\* coeffRef(i, j) += v : the entry is created (as 0) when it is absent.
coeffRefAdd(m, i, j, v) == insert(m, i, j, coeff(m, i, j) + v)

rowSum(m, i) == SumTo([j \in States |-> coeff(m, i, j)], NS - 1)

setIdentity == [x \in {<<s, s>> : s \in States} |-> One]

\* ------------------------------------------------------------ the object
Obj(d, t, r) == [discount |-> d, transitions |-> t, rewards |-> r]

Self == Obj(discount_, transitions_, rewards_)

\* The members as the constructors' initialiser lists leave them: A empty
\* S x S tables and an empty S x A table.  discount_ is not yet set.
EmptyObj == Obj(0, [a \in Actions |-> EmptyMatrix], EmptyMatrix)

\* What a call hands back: whether it returned (ok) or threw, the object as
\* the call left it, how many transition values the call itself read from its
\* argument, and whether it ran the validator over the argument.
Outcome(ok, m, n, v) == [ok |-> ok, m |-> m, reads |-> n, validated |-> v]

getTransitionProbability(m, s, a, s1) == coeff(m.transitions[a], s, s1)

getExpectedReward(m, s, a, s1) == coeff(m.rewards, s, a)

\* ------------------------------------------------------------ setDiscount
setDiscount(m, d) ==
    IF d < 0 \/ d > One
    THEN Outcome(FALSE, m, 0, FALSE)
    ELSE Outcome(TRUE, [m EXCEPT !.discount = d], 0, FALSE)

\* -------------------------------------------------------------- validator
isProbability(t) ==
    \A s \in States : \A a \in Actions :
        /\ \A s1 \in States : t[s][a][s1] >= 0 /\ t[s][a][s1] <= One
        /\ checkEqualSmall(SumTo(t[s][a], NS - 1), One)

\* ------------------------------------------- dense setTransitionFunction
\* One pass of the copy loop's body for action a: the table is emptied and
\* refilled with the values of t that differ from 0.
\* Mutant: every value is inserted, the zeros too.
DenseToSparse_StoreAll(t, a) ==
    [x \in States \X States |-> t[x[1]][a][x[2]]]

\* Mutant: the values are compared with 0 exactly.
DenseToSparse_ExactZero(t, a) ==
    [x \in {y \in States \X States : t[y[1]][a][y[2]] # 0} |-> t[x[1]][a][x[2]]]

DenseToSparse(t, a) ==
    [x \in {y \in States \X States : checkDifferentSmall(0, t[y[1]][a][y[2]])}
        |-> t[x[1]][a][x[2]]]

\* Mutant: the container is copied without validation.
setTransitionFunction_Unchecked(m, t) ==
    Outcome(TRUE,
            [m EXCEPT !.transitions = [a \in Actions |-> DenseToSparse(t, a)]],
            NA * NS * NS, FALSE)

\* Mutant: the copy runs before the validation.
setTransitionFunction_CopyFirst(m, t) ==
    Outcome(isProbability(t),
            [m EXCEPT !.transitions = [a \in Actions |-> DenseToSparse(t, a)]],
            NA * NS * NS, TRUE)

setTransitionFunction(m, t) ==
    IF ~isProbability(t)
    THEN Outcome(FALSE, m, 0, TRUE)
    ELSE Outcome(TRUE,
                 [m EXCEPT !.transitions = [a \in Actions |-> DenseToSparse(t, a)]],
                 NA * NS * NS, TRUE)

\* ----------------------------------------------- dense setRewardFunction
newRew(m, r, s, a) ==
    SumTo([s1 \in States |-> r[s][a][s1] * coeff(m.transitions[a], s, s1)], NS - 1)

\* Mutant: rewards_.setZero() is left out, an entry whose new value is
\* negligible keeps its old value.
setRewardFunction_KeepOld(m, r) ==
    [m EXCEPT !.rewards =
        [x \in DOMAIN m.rewards \cup
                {y \in States \X Actions : checkDifferentSmallR(newRew(m, r, y[1], y[2]), 0)}
            |-> IF checkDifferentSmallR(newRew(m, r, x[1], x[2]), 0)
                THEN newRew(m, r, x[1], x[2])
                ELSE m.rewards[x]]]

setRewardFunction(m, r) ==
    [m EXCEPT !.rewards =
        [x \in {y \in States \X Actions : checkDifferentSmallR(newRew(m, r, y[1], y[2]), 0)}
            |-> newRew(m, r, x[1], x[2])]]

\* ------------------------------------------------------------ constructors
\* Mutant: the tables are left as the initialiser list made them.
BasicConstructor_NoIdentity(d) == setDiscount(EmptyObj, d)

\* SparseModel(s, a, discount): every action's table is the identity.
BasicConstructor(d) ==
    LET o == setDiscount(EmptyObj, d)
    IN  IF ~o.ok THEN o
        ELSE Outcome(TRUE, [o.m EXCEPT !.transitions = [a \in Actions |-> setIdentity]],
                     0, FALSE)

\* Mutant: the discount is set after the two tables.
DenseConstructor_DiscountLast(t, r, d) ==
    LET o1 == setTransitionFunction(EmptyObj, t)
    IN  IF ~o1.ok THEN o1
        ELSE LET o2 == setDiscount(setRewardFunction(o1.m, r), d)
             IN  Outcome(o2.ok, o2.m, o1.reads, TRUE)

\* SparseModel(s, a, t, r, d): setDiscount, setTransitionFunction,
\* setRewardFunction, in this order; the first throw ends the construction.
DenseConstructor(t, r, d) ==
    LET o1 == setDiscount(EmptyObj, d)
    IN  IF ~o1.ok THEN o1
        ELSE LET o2 == setTransitionFunction(o1.m, t)
             IN  IF ~o2.ok THEN o2
                 ELSE Outcome(TRUE, setRewardFunction(o2.m, r), o2.reads, TRUE)

\* SparseModel(const M& model).  The triples are visited in the order
\* s, a, s1; k numbers them.
NTriples == NS * NA * NS

TripleS(k)  == k \div (NA * NS)
TripleA(k)  == (k \div NS) % NA
TripleS1(k) == k % NS

\* Mutant: r, not r * p, is added to the reward entry.
ConvertTriple_RewardUnweighted(model, m, k) ==
    LET s  == TripleS(k)
        a  == TripleA(k)
        s1 == TripleS1(k)
        p  == model.p[s][a][s1]
        r  == model.r[s][a][s1]
        t1 == IF checkDifferentSmall(0, p)
              THEN [m.transitions EXCEPT ![a] = insert(@, s, s1, p)]
              ELSE m.transitions
        r1 == IF checkDifferentSmall(0, r)
              THEN coeffRefAdd(m.rewards, s, a, r * One)
              ELSE m.rewards
    IN  Obj(m.discount, t1, r1)

\* The body of the innermost loop once the probability p passed the range
\* test: p is stored when it differs from 0, r * p is added to the (s, a)
\* reward entry when r differs from 0.
ConvertTriple(model, m, k) ==
    LET s  == TripleS(k)
        a  == TripleA(k)
        s1 == TripleS1(k)
        p  == model.p[s][a][s1]
        r  == model.r[s][a][s1]
        t1 == IF checkDifferentSmall(0, p)
              THEN [m.transitions EXCEPT ![a] = insert(@, s, s1, p)]
              ELSE m.transitions
        r1 == IF checkDifferentSmall(0, r)
              THEN coeffRefAdd(m.rewards, s, a, r * p)
              ELSE m.rewards
    IN  Obj(m.discount, t1, r1)

\* The test made when a row (s, a) has been filled.
RowInvalid(m, s, a) == checkDifferentSmall(One, rowSum(m.transitions[a], s))

\* Mutant: the rows are tested once all of them are filled.
RECURSIVE ConvertLoop_CheckAtEnd(_, _, _)
ConvertLoop_CheckAtEnd(model, m, k) ==
    IF k = NTriples
    THEN Outcome(\A s \in States : \A a \in Actions : ~RowInvalid(m, s, a), m, k, FALSE)
    ELSE LET p == model.p[TripleS(k)][TripleA(k)][TripleS1(k)]
         IN  IF p < 0 \/ p > One THEN Outcome(FALSE, m, k + 1, FALSE)
             ELSE ConvertLoop_CheckAtEnd(model, ConvertTriple(model, m, k), k + 1)

RECURSIVE ConvertLoop(_, _, _)
ConvertLoop(model, m, k) ==
    IF k = NTriples THEN Outcome(TRUE, m, k, FALSE)
    ELSE LET p == model.p[TripleS(k)][TripleA(k)][TripleS1(k)]
         IN  IF p < 0 \/ p > One THEN Outcome(FALSE, m, k + 1, FALSE)
             ELSE LET m1 == ConvertTriple(model, m, k)
                  IN  IF TripleS1(k) = NS - 1 /\ RowInvalid(m1, TripleS(k), TripleA(k))
                      THEN Outcome(FALSE, m1, k + 1, FALSE)
                      ELSE ConvertLoop(model, m1, k + 1)

ConvertConstructor(model) ==
    LET o == setDiscount(EmptyObj, model.discount)
    IN  IF ~o.ok THEN o ELSE ConvertLoop(model, o.m, 0)

\* ------------------------------------------------- trusted entry points
\* A sparse table holds valid probabilities: every value in [0, 1], every
\* row summing to 1 within the tolerance.
isProbabilitySparse(t) ==
    \A a \in Actions : \A s \in States :
        /\ \A s1 \in States : coeff(t[a], s, s1) >= 0 /\ coeff(t[a], s, s1) <= One
        /\ checkEqualSmall(rowSum(t[a], s), One)

\* SparseModel(NoCheck, s, a, t, r, d): the members are the arguments.
NoCheckConstructor(t, r, d) == Outcome(TRUE, Obj(d, t, r), 0, FALSE)

\* Mutant: the sparse overload stores whatever it is given.
setTransitionFunctionSparse_Unchecked(m, t) ==
    Outcome(TRUE, [m EXCEPT !.transitions = t], 0, FALSE)

\* setTransitionFunction(const TransitionMatrix &): throws when the matrix
\* does not contain valid probabilities, else replaces the table by it.
setTransitionFunctionSparse(m, t) ==
    IF ~isProbabilitySparse(t)
    THEN Outcome(FALSE, m, 0, TRUE)
    ELSE Outcome(TRUE, [m EXCEPT !.transitions = t], 0, TRUE)

\* setRewardFunction(const RewardMatrix &): replaces the table.
setRewardFunctionSparse(m, r) == [m EXCEPT !.rewards = r]

\* ---------------------------------------------------------------- sampler
\* The stored successors of row (a, s), in column order.
RowCols(m, s, a) == {s1 \in States : <<s, s1>> \in DOMAIN m.transitions[a]}

\* Inverse-transform sampling with the draw u: the first stored successor
\* whose cumulative probability exceeds u, else the last stored successor.
RECURSIVE sampleProbability(_, _, _, _, _)
sampleProbability(m, s, a, u, s1) ==
    LET later == {c \in RowCols(m, s, a) : c > s1}
        v     == coeff(m.transitions[a], s, s1)
    IN  IF v > u \/ later = {} THEN s1
        ELSE sampleProbability(m, s, a, u - v,
                               CHOOSE c \in later : \A c2 \in later : c <= c2)

sampleSR(m, s, a, u) ==
    LET cols  == RowCols(m, s, a)
        first == CHOOSE c \in cols : \A c2 \in cols : c <= c2
    IN  <<sampleProbability(m, s, a, u, first), coeff(m.rewards, s, a)>>

\* ------------------------------------------------------------- isTerminal
isTerminal(m, s) == \A a \in Actions : coeff(m.transitions[a], s, s) = One

\* ----------------------------------------------------------------- inputs
\* Dense containers t[s][a][s1]: the identity with one row (s, a) replaced by
\* any row over Vals.
IdentityT == [s \in States |-> [a \in Actions |-> [s1 \in States |->
                 IF s1 = s THEN One ELSE 0]]]

DenseT == {[IdentityT EXCEPT ![s][a] = row] :
              s \in States, a \in Actions, row \in [States -> Vals]}

\* Dense containers r[s][a][s1]: all 0 but for one row (s, a) over RVals.
ZeroR == [s \in States |-> [a \in Actions |-> [s1 \in States |-> 0]]]

DenseR == {[ZeroR EXCEPT ![s][a] = row] :
              s \in States, a \in Actions, row \in [States -> RVals]}

\* The arguments of a constructor call: both containers differ from the
\* identity and from 0 in the same row (s, a).
EditT(s, a, row) == [IdentityT EXCEPT ![s][a] = row]

EditR(s, a, row) == [ZeroR EXCEPT ![s][a] = row]

DenseArgs ==
    {[t |-> EditT(s, a, prow), r |-> EditR(s, a, rrow), d |-> d] :
        s \in States, a \in Actions, prow \in [States -> Vals],
        rrow \in [States -> RVals], d \in Discounts}

\* Source models of the conversion: anything with the read contract
\* (getDiscount, getTransitionProbability, getExpectedReward).
Models ==
    {[discount |-> x.d, p |-> x.t, r |-> x.r] : x \in DenseArgs}

NoArg == [none |-> TRUE]

\* ------------------------------------------------------------------- Init
\* The state a constructor call leaves: the object when it returned, no
\* object (constructed = FALSE) when it threw.
Constructed(name, a, o) ==
    /\ constructed = o.ok
    /\ discount_ = o.m.discount
    /\ transitions_ = o.m.transitions
    /\ rewards_ = o.m.rewards
    /\ op = name
    /\ res = IF o.ok THEN "ok" ELSE "InvalidArgument"
    /\ arg = a
    /\ reads = [n |-> o.reads, validated |-> o.validated]

InitBasic ==
    \E d \in Discounts :
        Constructed("SparseModel(s,a,discount)", [d |-> d], BasicConstructor(d))

InitDense ==
    \E x \in DenseArgs :
        Constructed("SparseModel(s,a,t,r,d)", x, DenseConstructor(x.t, x.r, x.d))

InitConvert ==
    \E model \in Models :
        Constructed("SparseModel(model)", [model |-> model], ConvertConstructor(model))

Init == InitBasic \/ InitDense \/ InitConvert

\* ---------------------------------------------------------------- actions
\* A member call on the live object; its outcome o becomes the next state.
Called(name, o) ==
    /\ constructed
    /\ constructed' = constructed
    /\ discount_' = o.m.discount
    /\ transitions_' = o.m.transitions
    /\ rewards_' = o.m.rewards
    /\ op' = name
    /\ res' = IF o.ok THEN "ok" ELSE "InvalidArgument"
    /\ arg' = NoArg
    /\ reads' = [n |-> o.reads, validated |-> o.validated]

SetTransitionFunction ==
    \E t \in DenseT :
        Called("setTransitionFunction(T)", setTransitionFunction(Self, t))

SetRewardFunction ==
    \E r \in DenseR :
        Called("setRewardFunction(R)",
               Outcome(TRUE, setRewardFunction(Self, r), NA * NS * NS, FALSE))

SetDiscount ==
    \E d \in Discounts :
        Called("setDiscount", setDiscount(Self, d))

SampleSR ==
    \E s \in States : \E a \in Actions : \E u \in Draws :
        /\ constructed
        /\ RowCols(Self, s, a) # {}
        /\ Called("sampleSR", Outcome(TRUE, Self, 0, FALSE))

Next == SetTransitionFunction \/ SetRewardFunction \/ SetDiscount \/ SampleSR

Spec == Init /\ [][Next]_vars

\* ================================================================= claims
IdentityTables == [a \in Actions |-> setIdentity]

\* Sum over s1 of the stored probabilities of row (s, a).
RowTotal(m, s, a) ==
    SumTo([s1 \in States |-> getTransitionProbability(m, s, a, s1)], NS - 1)

\* A dense container that is no transition function: a value outside [0, 1]
\* or a row whose sum is further from 1 than the tolerance.
BadContainer(t) ==
    \E s \in States : \E a \in Actions :
        \/ \E s1 \in States : t[s][a][s1] < 0 \/ t[s][a][s1] > One
        \/ Abs(SumTo(t[s][a], NS - 1) - One) > Tol

Negligible(v) == Abs(v) <= Tol

\* C1: in every state of a live object every stored probability lies in
\* [0, 1] and every row (s, a) sums to 1 within the tolerance.
C1_Simplex ==
    constructed =>
        \A s \in States : \A a \in Actions :
            /\ \A s1 \in States :
                   /\ getTransitionProbability(Self, s, a, s1) >= 0
                   /\ getTransitionProbability(Self, s, a, s1) <= One
            /\ Abs(RowTotal(Self, s, a) - One) <= Tol

\* C2: on every live object, setTransitionFunction with a dense container
\* that is no transition function throws InvalidArgument and leaves the
\* transition table, the reward table and the discount as they were.
C2_ValidateBeforeWrite ==
    constructed =>
        \A t \in DenseT :
            BadContainer(t) =>
                LET o == setTransitionFunction(Self, t)
                IN  ~o.ok /\ o.m = Self

\* A rejected setTransitionFunction on an object whose tables are not the
\* initial ones.
C2_Witness ==
    /\ constructed
    /\ op = "setTransitionFunction(T)" /\ res = "InvalidArgument"
    /\ transitions_ # IdentityTables
    /\ rewards_ # EmptyMatrix

\* What reading back a dense container t gives: the value, or 0 for a value
\* within the tolerance of 0; and nothing else is stored.
ReadsBack(m, t) ==
    \A s \in States : \A a \in Actions :
        /\ \A s1 \in States :
               getTransitionProbability(m, s, a, s1) =
                   IF Negligible(t[s][a][s1]) THEN 0 ELSE t[s][a][s1]
        /\ RowCols(m, s, a) = {s1 \in States : ~Negligible(t[s][a][s1])}

\* C3: a successful dense setTransitionFunction(t), on any live object, and a
\* successful dense construction from t, leave a table that reads back as t
\* with the negligible values as 0, and no entry of the previous table.
C3_DenseRoundTrip ==
    /\ constructed =>
           \A t \in DenseT :
               LET o == setTransitionFunction(Self, t)
               IN  o.ok => ReadsBack(o.m, t)
    /\ (constructed /\ op = "SparseModel(s,a,t,r,d)") => ReadsBack(Self, arg.t)

\* A successful setTransitionFunction after which a self-loop, present in
\* every table a constructor with these arguments can leave, is gone, and a
\* row sums to less than 1.
C3_Witness ==
    /\ constructed /\ op = "setTransitionFunction(T)" /\ res = "ok"
    /\ \E s \in States : \E a \in Actions :
           /\ getTransitionProbability(Self, s, a, s) = 0
           /\ RowTotal(Self, s, a) < One

\* ------------------------------------------------------------- conversion
\* The source model's row total, and the total of its values that are stored
\* (those that differ from 0).
SourceRowTotal(model, s, a) == SumTo(model.p[s][a], NS - 1)

SourceStoredTotal(model, s, a) ==
    SumTo([s1 \in States |-> IF Negligible(model.p[s][a][s1]) THEN 0
                              ELSE model.p[s][a][s1]], NS - 1)

\* Sum over s1 of r * p, over all triples and over those whose r differs
\* from 0.
SourceReward(model, s, a) ==
    SumTo([s1 \in States |-> model.r[s][a][s1] * model.p[s][a][s1]], NS - 1)

SourceRewardKept(model, s, a) ==
    SumTo([s1 \in States |-> IF Negligible(model.r[s][a][s1]) THEN 0
                              ELSE model.r[s][a][s1] * model.p[s][a][s1]], NS - 1)

Converted == constructed /\ op = "SparseModel(model)"

ConvertedTransitions ==
    /\ discount_ = arg.model.discount
    /\ \A s \in States : \A a \in Actions : \A s1 \in States :
           getTransitionProbability(Self, s, a, s1) =
               IF arg.model.p[s][a][s1] > Tol THEN arg.model.p[s][a][s1] ELSE 0

\* C4 as stated: after a successful conversion the discount and the
\* probabilities above the threshold are the source's, the others 0, and the
\* reward stored for (s, a) is the sum over s1 of r * p.
C4_AsStated ==
    Converted =>
        /\ ConvertedTransitions
        /\ \A s \in States : \A a \in Actions :
               getExpectedReward(Self, s, a, 0) = SourceReward(arg.model, s, a)

\* C4 amended: the reward stored for (s, a) is the sum of r * p over the
\* successors s1 whose r differs from 0 by more than the tolerance.
C4_ConversionFidelity ==
    Converted =>
        /\ ConvertedTransitions
        /\ \A s \in States : \A a \in Actions :
               getExpectedReward(Self, s, a, 0) = SourceRewardKept(arg.model, s, a)

\* A conversion that stored a reward and a probability and skipped a
\* negligible reward of a transition that can happen.
C4_Witness ==
    /\ Converted
    /\ rewards_ # EmptyMatrix
    /\ \E s \in States : \E a \in Actions : \E s1 \in States :
           /\ arg.model.r[s][a][s1] = Tol
           /\ arg.model.p[s][a][s1] > Tol
           /\ getExpectedReward(Self, s, a, s1) # 0

ConvertCalled == op = "SparseModel(model)" /\ arg.model.discount \in 0 .. One

OutOfRange(model, k) ==
    LET p == model.p[TripleS(k)][TripleA(k)][TripleS1(k)] IN p < 0 \/ p > One

\* C5 as stated: with a valid discount, the conversion throws exactly when
\* the source has a probability outside [0, 1] or a row whose total is
\* further from 1 than the tolerance.
C5_AsStated ==
    ConvertCalled =>
        (res = "InvalidArgument" <=>
            \/ \E k \in 0 .. NTriples - 1 : OutOfRange(arg.model, k)
            \/ \E s \in States : \E a \in Actions :
                   Abs(SourceRowTotal(arg.model, s, a) - One) > Tol)

\* The triple at which the conversion has to stop: its probability is out of
\* range, or it ends a row whose stored values sum further from 1 than the
\* tolerance.
Offends(model, k) ==
    \/ OutOfRange(model, k)
    \/ /\ TripleS1(k) = NS - 1
       /\ Abs(SourceStoredTotal(model, TripleS(k), TripleA(k)) - One) > Tol

\* C5 amended: with a valid discount, the conversion throws exactly when some
\* triple offends, where a row offends by the total of its values above the
\* threshold; it stops at the first offending triple in the order s, a, s1,
\* having read the probabilities up to that triple and no later one.
C5_ConversionRejects ==
    ConvertCalled =>
        LET bad == {k \in 0 .. NTriples - 1 : Offends(arg.model, k)}
        IN  /\ res = "InvalidArgument" <=> bad # {}
            /\ bad # {} => \E k \in bad : /\ \A j \in bad : k <= j
                                          /\ reads.n = k + 1
            /\ bad = {} => reads.n = NTriples

\* A conversion stopped by a row other than the first one, and not by an
\* out-of-range value.
C5_Witness ==
    /\ ConvertCalled /\ res = "InvalidArgument"
    /\ reads.n > NS /\ reads.n < NTriples
    /\ \A k \in 0 .. NTriples - 1 : ~OutOfRange(arg.model, k)

\* ---------------------------------------------------------------- sampler
\* Cumulative probability of row (s, a) up to and including column c.
Cumulative(m, s, a, c) ==
    SumTo([s1 \in States |-> getTransitionProbability(m, s, a, s1)], c)

NonZeroSuccessors(m, s, a) ==
    {s1 \in States : getTransitionProbability(m, s, a, s1) # 0}

SampledRight(m, s, a, u, s1) ==
    \/ /\ Cumulative(m, s, a, s1) > u
       /\ \A c \in States : c < s1 => Cumulative(m, s, a, c) <= u
    \/ /\ RowTotal(m, s, a) <= u
       /\ \A c \in NonZeroSuccessors(m, s, a) : c <= s1

\* C6: on every live object, for every (s, a) and every draw u in [0, 1),
\* sampleSR returns a state with a stored nonzero probability in row (s, a):
\* the first whose cumulative probability exceeds u, or the last nonzero one
\* when the row's total does not exceed u; the reward returned is the reward
\* table's entry for (s, a); and a sampleSR step leaves the object as it was.
C6_Returns ==
    constructed =>
        \A s \in States : \A a \in Actions : \A u \in Draws :
            /\ RowCols(Self, s, a) # {}
            /\ LET sr == sampleSR(Self, s, a, u)
               IN  /\ sr[1] \in NonZeroSuccessors(Self, s, a)
                   /\ SampledRight(Self, s, a, u, sr[1])
                   /\ sr[2] = getExpectedReward(Self, s, a, sr[1])

C6_Sampler ==
    /\ []C6_Returns
    /\ [][op' = "sampleSR" =>
            /\ res' = "ok"
            /\ UNCHANGED <<constructed, discount_, transitions_, rewards_>>]_vars

\* sampleSR ran on an object with a row whose total a draw can reach (the
\* row sums to less than 1) and which has a reward.
C6_Witness ==
    /\ constructed /\ op = "sampleSR"
    /\ \E s \in States : \E a \in Actions : \E u \in Draws :
           /\ RowTotal(Self, s, a) <= u
           /\ getExpectedReward(Self, s, a, 0) # 0

\* ------------------------------------------------------ basic constructor
\* C7: the constructor (S, A, discount) with a discount in [0, 1] gives
\* probability 1 to every self-loop and 0 to every other transition, reward
\* 0 everywhere, and every state is terminal.
C7_BasicConstructor ==
    (op = "SparseModel(s,a,discount)" /\ arg.d \in 0 .. One) =>
        /\ constructed /\ res = "ok"
        /\ \A s \in States : \A a \in Actions : \A s1 \in States :
               /\ getTransitionProbability(Self, s, a, s1) = IF s1 = s THEN One ELSE 0
               /\ getExpectedReward(Self, s, a, s1) = 0
        /\ \A s \in States : isTerminal(Self, s)

C7_Witness == constructed /\ op = "SparseModel(s,a,discount)" /\ discount_ = 0

\* ---------------------------------------------------------------- discount
\* C8: on every live object setDiscount(d) returns and stores d when
\* 0 <= d <= 1, and throws leaving the object as it was otherwise; the dense
\* constructor and the conversion throw on such a discount having read no
\* transition value and not having run the validator.
C8_Discount ==
    /\ constructed =>
           \A d \in Discounts :
               LET o == setDiscount(Self, d)
               IN  IF d >= 0 /\ d <= One
                   THEN o.ok /\ o.m = [Self EXCEPT !.discount = d]
                   ELSE ~o.ok /\ o.m = Self
    /\ (op = "SparseModel(s,a,t,r,d)" /\ ~(arg.d \in 0 .. One)) =>
           res = "InvalidArgument" /\ reads.n = 0 /\ ~reads.validated
    /\ (op = "SparseModel(model)" /\ ~(arg.model.discount \in 0 .. One)) =>
           res = "InvalidArgument" /\ reads.n = 0 /\ ~reads.validated

\* A dense construction rejected for its discount although its transition
\* container is invalid too.
C8_Witness ==
    /\ op = "SparseModel(s,a,t,r,d)" /\ res = "InvalidArgument"
    /\ arg.d > One
    /\ BadContainer(arg.t)

\* -------------------------------------------------------------- isTerminal
Leaves(m, s) ==
    \E a \in Actions : \E s1 \in States :
        s1 # s /\ getTransitionProbability(m, s, a, s1) # 0

\* C9: on every live object isTerminal(s) is true exactly when every action
\* has getTransitionProbability(s, a, s) = 1, and is false for a state that
\* some action leaves with nonzero probability.
C9_Terminal ==
    constructed =>
        \A s \in States :
            /\ isTerminal(Self, s) <=>
                   \A a \in Actions : getTransitionProbability(Self, s, a, s) = One
            /\ Leaves(Self, s) => ~isTerminal(Self, s)

\* A state that one action leaves while another action is a self-loop of
\* probability 1, next to a terminal state.
C9_Witness ==
    /\ constructed
    /\ \E s \in States :
           /\ Leaves(Self, s)
           /\ \E a \in Actions : getTransitionProbability(Self, s, a, s) = One
           /\ ~isTerminal(Self, s)
    /\ \E s \in States : isTerminal(Self, s)

\* --------------------------------------------------- dense reward function
\* Sum over s1 of r[s][a][s1] times the probability the tables t store.
Weighted(t, r, s, a) ==
    SumTo([s1 \in States |-> r[s][a][s1] * coeff(t[a], s, s1)], NS - 1)

\* The reward table rew holds, for every (s, a), the r-weighted sum over the
\* tables t, and holds no entry where that sum is within tolerance of 0.
RewardsWeighted(rew, t, r) ==
    \A s \in States : \A a \in Actions :
        LET w == Weighted(t, r, s, a)
        IN  IF Abs(w) > Tol * One
            THEN <<s, a>> \in DOMAIN rew /\ rew[<<s, a>>] = w
            ELSE <<s, a>> \notin DOMAIN rew

\* The tables the dense constructor stores for a valid container t.
SuppliedTransitions(t) ==
    [a \in Actions |-> [x \in {y \in States \X States : t[y[1]][a][y[2]] > Tol}
                           |-> t[x[1]][a][x[2]]]]

C11_Stored ==
    /\ constructed =>
           \A r \in DenseR :
               LET m == setRewardFunction(Self, r)
               IN  /\ RewardsWeighted(m.rewards, transitions_, r)
                   /\ m.transitions = transitions_
                   /\ m.discount = discount_
    /\ constructed /\ op = "SparseModel(s,a,t,r,d)" =>
           RewardsWeighted(rewards_, SuppliedTransitions(arg.t), arg.r)

\* C11: dense setRewardFunction(r) replaces the whole reward table: for every
\* (s, a) the stored reward is the sum over s1 of r[s][a][s1] times the
\* probability stored at the time of the call, entries within tolerance of 0
\* are not stored, and the transitions are left alone; the rewards of a
\* dense-constructed model are weighted by the supplied transitions.
C11_DenseRewards ==
    /\ []C11_Stored
    /\ [][op' = "setRewardFunction(R)" =>
            /\ res' = "ok"
            /\ transitions_' = transitions_
            /\ discount_' = discount_
            /\ \A x \in DOMAIN rewards_' : Abs(rewards_'[x]) > Tol * One]_vars

\* setRewardFunction(r) returned and the entry it stored is weighted over a
\* row of two successors.
C11_Witness ==
    /\ constructed
    /\ op = "setRewardFunction(R)"
    /\ \E s \in States : \E a \in Actions :
           /\ <<s, a>> \in DOMAIN rewards_
           /\ Cardinality(RowCols(Self, s, a)) = 2
           /\ rewards_[<<s, a>>] < 0

\* ------------------------------------------------ conversion: reward entries
\* The contribution r * p of the triple (s, a, s1) of the source model.
Contribution(model, s, a, s1) == model.r[s][a][s1] * model.p[s][a][s1]

ContributionKept(model, s, a, s1) == Abs(Contribution(model, s, a, s1)) > Tol * One

\* C12: in a conversion the triple (s, a, s1) adds r * p to the reward entry
\* of (s, a) exactly when r * p is non-negligible, so that the entry holds the
\* sum of the non-negligible contributions and no entry exists for an (s, a)
\* all of whose contributions are within tolerance of 0.
C12_Accumulates ==
    Converted =>
        \A s \in States : \A a \in Actions :
            /\ getExpectedReward(Self, s, a, 0) =
                   SumTo([s1 \in States |->
                             IF ContributionKept(arg.model, s, a, s1)
                             THEN Contribution(arg.model, s, a, s1) ELSE 0], NS - 1)
            /\ (\A s1 \in States : ~ContributionKept(arg.model, s, a, s1))
                   => <<s, a>> \notin DOMAIN rewards_

\* ------------------------------------------------- trusted entry points
\* Sparse tables a caller may hand in: a dense container with every value
\* other than 0 stored as it is.
SparseOf(t, a) ==
    [x \in {y \in States \X States : t[y[1]][a][y[2]] # 0} |-> t[x[1]][a][x[2]]]

SparseT == {[a \in Actions |-> SparseOf(t, a)] : t \in DenseT}

SparseR == {EmptyMatrix, [x \in {<<0, 0>>} |-> One * MaxRew]}

InitNoCheck ==
    \E t \in SparseT : \E r \in SparseR : \E d \in Discounts :
        Constructed("SparseModel(NoCheck,s,a,t,r,d)", [t |-> t, r |-> r, d |-> d],
                    NoCheckConstructor(t, r, d))

SetTransitionFunctionSparse ==
    \E t \in SparseT :
        Called("setTransitionFunction(TransitionMatrix)",
               setTransitionFunctionSparse(Self, t))

SetRewardFunctionSparse ==
    \E r \in SparseR :
        Called("setRewardFunction(RewardMatrix)",
               Outcome(TRUE, setRewardFunctionSparse(Self, r), 0, FALSE))

NextTrusted == SetTransitionFunctionSparse \/ SetRewardFunctionSparse

SpecTrusted == InitNoCheck /\ [][NextTrusted]_vars

\* A sparse table that is no transition function.
BadSparse(t) ==
    \E a \in Actions : \E s \in States :
        \/ \E s1 \in States : coeff(t[a], s, s1) < 0 \/ coeff(t[a], s, s1) > One
        \/ Abs(rowSum(t[a], s) - One) > Tol

NoCheckStores ==
    op = "SparseModel(NoCheck,s,a,t,r,d)" =>
        /\ constructed /\ res = "ok" /\ ~reads.validated
        /\ transitions_ = arg.t /\ rewards_ = arg.r /\ discount_ = arg.d

====
